---- MODULE Spec2Model ----
(***************************************************************************)
(* Model of the snake game tick engine (src/src/game.rs), its board        *)
(* (board.rs), snake (snake.rs), direction (direction.rs) and the packets  *)
(* two networked peers exchange (packet.rs).                               *)
(*                                                                         *)
(* Every peer is one process running SnakeGame::play; pc[p] is its         *)
(* position in the tick loop.  The TCP connection is a pair of reliable    *)
(* FIFO byte streams; wire[p] holds the packets in flight to p, each       *)
(* delivered whole.  A peer whose process has ended has closed its socket, *)
(* so the other side's read returns 0 bytes ("disconnected").              *)
(* sent and applied are history variables: they record what was put on the *)
(* wire and what was handed to process(), and no action reads them.        *)
(* codec is one packet on its way through Packet::encode and               *)
(* Packet::decode, byte by byte; the games leave it alone.                 *)
(***************************************************************************)
EXTENDS Integers, Sequences, FiniteSets, TLC

VARIABLES mode, board, player, opponent, target, socket, queue, tick_id,
          pc, result, ctrl_rx, wire, blocking, keys, stray, horizon, sent, applied, pre,
          codec

game_vars == <<mode, board, player, opponent, target, socket, queue, tick_id,
               pc, result, ctrl_rx, wire, blocking, keys, stray, horizon, sent,
               applied, pre>>

vars == <<game_vars, codec>>

(***************************************************************************)
(* Bounds of the exploration.                                              *)
(***************************************************************************)
MaxTicks == 2
MaxKeys == 2
MaxRand == 2
RandStride == 27

(***************************************************************************)
(* Program constants.                                                      *)
(***************************************************************************)
BOARD_SIZE == 8
HEADER_SIZE == 12
U16_MAX == 65535
EMPTY_CHAR == " "
PLAYER_CHAR == "+"
OPPONENT_CHAR == "-"
TARGET_CHAR == "o"
CRASH_CHAR == "x"

Direction == {"Right", "Down", "Left", "Up"}
Opcode == {"Sync", "NewDirection", "NewTarget"}

Positions == (0..(BOARD_SIZE - 1)) \X (0..(BOARD_SIZE - 1))

\* the values random_number() is drawn from
RandomNumbers == {k * RandStride : k \in 0..(MaxRand - 1)}

None == [none |-> TRUE]
IsSome(x) == x # None

(***************************************************************************)
(* direction.rs                                                            *)
(***************************************************************************)
\* `direction as u8`
DirectionAsU8(d) ==
    CASE d = "Right" -> 0
      [] d = "Down" -> 1
      [] d = "Left" -> 2
      [] d = "Up" -> 3

\* Direction::from; "panic" stands for the panic of the last arm
DirectionFrom(value) ==
    CASE value = 0 -> "Right"
      [] value = 1 -> "Down"
      [] value = 2 -> "Left"
      [] value = 3 -> "Up"
      [] OTHER -> "panic"

\* Direction::random
DirectionRandom(r) ==
    CASE r % 4 = 0 -> "Right"
      [] r % 4 = 1 -> "Down"
      [] r % 4 = 2 -> "Left"
      [] OTHER -> "Up"

(***************************************************************************)
(* board.rs                                                                *)
(***************************************************************************)
BoardNew == [pos \in Positions |-> EMPTY_CHAR]

Mark(pixels, pos, value) == [pixels EXCEPT ![pos] = value]

Unmark(pixels, pos) == [pixels EXCEPT ![pos] = EMPTY_CHAR]

Value(pixels, pos) == pixels[pos]

\* a full test that takes a Target cell for an occupied one
IsFull_TargetOccupied(pixels) ==
    \A pos \in DOMAIN pixels : pixels[pos] # EMPTY_CHAR

\* the cells in the order the nested loops of the board visit them
RowMajor == [k \in 1..(BOARD_SIZE * BOARD_SIZE) |->
                <<(k - 1) \div BOARD_SIZE, (k - 1) % BOARD_SIZE>>]

IsFull(pixels) ==
    \A k \in 1..Len(RowMajor) :
        ~(pixels[RowMajor[k]] = EMPTY_CHAR \/ pixels[RowMajor[k]] = TARGET_CHAR)

Available(pixels) == SelectSeq(RowMajor, LAMBDA pos : pixels[pos] = EMPTY_CHAR)

RandomPosition(pixels, r) ==
    LET available == Available(pixels)
    IN  IF Len(available) = 0 THEN None
        ELSE available[(r % Len(available)) + 1]

(***************************************************************************)
(* snake.rs                                                                *)
(***************************************************************************)
SnakeNew(head, direction) == [body |-> <<head>>, direction |-> direction]

SnakeHead(s) == s.body[1]

SnakeTail(s) == s.body[Len(s.body)]

\* the new segment put in front of the head
SnakeGrow_Front(s, tail) == [s EXCEPT !.body = <<tail>> \o @]

SnakeGrow(s, tail) == [s EXCEPT !.body = Append(@, tail)]

SnakeSize(s) == Len(s.body)

\* the heading set whatever the request
SnakeControl_NoGuard(s, direction) == [s EXCEPT !.direction = direction]

SnakeControl(s, direction) ==
    CASE s.direction = "Right" ->
            IF direction # "Left" THEN [s EXCEPT !.direction = direction] ELSE s
      [] s.direction = "Down" ->
            IF direction # "Up" THEN [s EXCEPT !.direction = direction] ELSE s
      [] s.direction = "Left" ->
            IF direction # "Right" THEN [s EXCEPT !.direction = direction] ELSE s
      [] s.direction = "Up" ->
            IF direction # "Down" THEN [s EXCEPT !.direction = direction] ELSE s

\* a head that stops at the left and upper edges
Advance_Saturating(head, direction) ==
    CASE direction = "Right" -> <<head[1], (head[2] + 1) % BOARD_SIZE>>
      [] direction = "Down" -> <<(head[1] + 1) % BOARD_SIZE, head[2]>>
      [] direction = "Left" -> <<head[1], IF head[2] > 0 THEN head[2] - 1 ELSE 0>>
      [] direction = "Up" -> <<IF head[1] > 0 THEN head[1] - 1 ELSE 0, head[2]>>

\* the new head of the match in Snake::update
Advance(head, direction) ==
    CASE direction = "Right" -> <<head[1], (head[2] + 1) % BOARD_SIZE>>
      [] direction = "Down" -> <<(head[1] + 1) % BOARD_SIZE, head[2]>>
      [] direction = "Left" ->
            <<head[1], IF head[2] > 0 THEN head[2] - 1 ELSE BOARD_SIZE - 1>>
      [] direction = "Up" ->
            <<IF head[1] > 0 THEN head[1] - 1 ELSE BOARD_SIZE - 1, head[2]>>

\* the loop of Snake::update after k iterations; iteration k writes the
\* segment with (0-based) index len - k - 1
RECURSIVE SnakeUpdateLoop(_, _, _)
SnakeUpdateLoop(body, direction, k) ==
    IF k = Len(body) THEN body
    ELSE LET i == Len(body) - k
         IN  SnakeUpdateLoop(
                 IF i > 1 THEN [body EXCEPT ![i] = body[i - 1]]
                 ELSE [body EXCEPT ![i] = Advance(body[i], direction)],
                 direction, k + 1)

\* the segments written from the head to the tail, each one reading the
\* predecessor that was written just before it
SnakeUpdate_HeadFirst(s) ==
    [s EXCEPT !.body = [i \in 1..Len(s.body) |-> Advance(s.body[1], s.direction)]]

SnakeUpdate(s) == [s EXCEPT !.body = SnakeUpdateLoop(s.body, s.direction, 0)]

(***************************************************************************)
(* packet.rs: a packet is its opcode and its payload bytes                 *)
(***************************************************************************)
PacketNew(opcode, data) == [opcode |-> opcode, data |-> data]

\* PROTOCOL_ID = 0xaefdb87fe753ba07, written as its eight bytes, the most
\* significant first: a u64 is the number these base-256 digits spell, so
\* the shifts of encode produce them and the value decode rebuilds equals
\* PROTOCOL_ID exactly when the eight bytes it read are these
PROTOCOL_ID == <<174, 253, 184, 127, 231, 83, 186, 7>>

\* `opcode as u16`
OpcodeAsU16(opcode) ==
    CASE opcode = "Sync" -> 1
      [] opcode = "NewDirection" -> 2
      [] opcode = "NewTarget" -> 3

\* push_data; panic is the panic of the size test
PushData(packet, data) ==
    IF Len(packet.data) + Len(data) > U16_MAX
    THEN [panic |-> TRUE, packet |-> packet]
    ELSE [panic |-> FALSE, packet |-> [packet EXCEPT !.data = @ \o data]]

\* `value as u8`
AsU8(value) == value % 256

\* the length field written from its low byte only
Encode_SizeLowByte(packet) ==
    PROTOCOL_ID
    \o <<AsU8(OpcodeAsU16(packet.opcode) \div 256), AsU8(OpcodeAsU16(packet.opcode))>>
    \o <<0, AsU8(Len(packet.data))>>
    \o packet.data

\* Packet::encode
Encode(packet) ==
    PROTOCOL_ID
    \o <<AsU8(OpcodeAsU16(packet.opcode) \div 256), AsU8(OpcodeAsU16(packet.opcode))>>
    \o <<AsU8(Len(packet.data) \div 256), AsU8(Len(packet.data))>>
    \o packet.data

\* the u16 of two bytes, `(hi as u16) << 8 | (lo as u16)`
U16From(hi, lo) == hi * 256 + lo

\* decode without the test of the length field
Decode_NoSizeCheck(buffer) ==
    IF Len(buffer) < HEADER_SIZE THEN None
    ELSE IF SubSeq(buffer, 1, 8) # PROTOCOL_ID THEN None
    ELSE LET opcode == U16From(buffer[9], buffer[10])
         IN  IF opcode \notin {1, 2, 3} THEN None
             ELSE [opcode |-> CASE opcode = 1 -> "Sync"
                                [] opcode = 2 -> "NewDirection"
                                [] opcode = 3 -> "NewTarget",
                   data |-> SubSeq(buffer, HEADER_SIZE + 1, Len(buffer))]

\* Packet::decode
Decode(buffer) ==
    IF Len(buffer) < HEADER_SIZE THEN None
    ELSE IF SubSeq(buffer, 1, 8) # PROTOCOL_ID THEN None
    ELSE LET opcode == U16From(buffer[9], buffer[10])
         IN  IF opcode \notin {1, 2, 3} THEN None
             ELSE LET size == U16From(buffer[11], buffer[12])
                  IN  IF size # Len(buffer) - HEADER_SIZE THEN None
                      ELSE [opcode |-> CASE opcode = 1 -> "Sync"
                                         [] opcode = 2 -> "NewDirection"
                                         [] opcode = 3 -> "NewTarget",
                            data |-> SubSeq(buffer, HEADER_SIZE + 1, Len(buffer))]

\* byte k (0 = most significant) of the 8 big-endian bytes of a u64
RECURSIVE ShiftRight8(_, _)
ShiftRight8(value, n) == IF n = 0 THEN value ELSE ShiftRight8(value \div 256, n - 1)

TickBytes(t) == [k \in 1..8 |-> ShiftRight8(t, 8 - k) % 256]

\* the counter rebuilt from the first byte of the payload only
TickFromBytes_FirstByte(data, n) == data[1]

\* the shifts and ors of synchronize that rebuild the u64
RECURSIVE TickFromBytes(_, _)
TickFromBytes(data, n) ==
    IF n = 0 THEN 0 ELSE TickFromBytes(data, n - 1) * 256 + data[n]

SyncPacket(t) == PacketNew("Sync", TickBytes(t))

\* send_control
ControlPacket(direction) == PacketNew("NewDirection", <<DirectionAsU8(direction)>>)

\* send_target
TargetPacket(pos) == PacketNew("NewTarget", <<pos[1], pos[2]>>)

(***************************************************************************)
(* game.rs: SnakeGame::new                                                 *)
(***************************************************************************)
Peers(m) == IF m = "Singleplayer" THEN {"single"} ELSE {"client", "server"}

Other(p) == IF p = "client" THEN "server" ELSE "client"

\* the fields new() builds for one role; r1, r2, r3 are the values of the
\* three calls of random_number() of the single-player arm
GameNew(role, r1, r2, r3) ==
    CASE role = "single" ->
            LET head == RandomPosition(BoardNew, r1)
                b1 == Mark(BoardNew, head, PLAYER_CHAR)
                t == RandomPosition(b1, r3)
            IN  [board |-> Mark(b1, t, TARGET_CHAR),
                 player |-> SnakeNew(head, DirectionRandom(r2)),
                 opponent |-> None,
                 target |-> <<t>>,
                 socket |-> FALSE]
      [] role = "client" ->
            LET head == <<1, 1>>
                ohead == <<BOARD_SIZE - 2, BOARD_SIZE - 2>>
                t == <<BOARD_SIZE \div 2, BOARD_SIZE \div 2>>
            IN  [board |-> Mark(Mark(Mark(BoardNew, head, PLAYER_CHAR),
                                     ohead, OPPONENT_CHAR), t, TARGET_CHAR),
                 player |-> SnakeNew(head, "Right"),
                 opponent |-> SnakeNew(ohead, "Left"),
                 target |-> <<t>>,
                 socket |-> TRUE]
      [] role = "server" ->
            LET head == <<BOARD_SIZE - 2, BOARD_SIZE - 2>>
                ohead == <<1, 1>>
                t == <<BOARD_SIZE \div 2, BOARD_SIZE \div 2>>
            IN  [board |-> Mark(Mark(Mark(BoardNew, head, PLAYER_CHAR),
                                     ohead, OPPONENT_CHAR), t, TARGET_CHAR),
                 player |-> SnakeNew(head, "Left"),
                 opponent |-> SnakeNew(ohead, "Right"),
                 target |-> <<t>>,
                 socket |-> TRUE]

\* no packet is in the codec
Idle == [stage |-> "idle"]

\* the mode of the socket when play() is at the top of its loop with tick
\* counter t0: the stream that connect() or accept() returned is blocking
\* until the first synchronize has returned, non-blocking from then on
FreshSocket(has_socket, t0) == has_socket /\ t0 = 0

\* the state play() starts from, given the games of the peers, the tick
\* counter, the last tick to explore and the number of lines the input
\* threads have read so far
StartGame(m, games, t0, last, typed) ==
    /\ mode = m
    /\ board = [p \in Peers(m) |-> games[p].board]
    /\ player = [p \in Peers(m) |-> games[p].player]
    /\ opponent = [p \in Peers(m) |-> games[p].opponent]
    /\ target = [p \in Peers(m) |-> games[p].target]
    /\ socket = [p \in Peers(m) |-> games[p].socket]
    /\ queue = [p \in Peers(m) |-> <<>>]
    /\ tick_id = [p \in Peers(m) |-> t0]
    /\ pc = [p \in Peers(m) |-> "loop"]
    /\ result = [p \in Peers(m) |-> None]
    /\ ctrl_rx = [p \in Peers(m) |-> <<>>]
    /\ wire = [p \in Peers(m) |-> <<>>]
    /\ blocking = [p \in Peers(m) |-> FreshSocket(games[p].socket, t0)]
    /\ keys = typed
    /\ stray = [p \in Peers(m) |-> 0]
    /\ horizon = last
    /\ sent = [p \in Peers(m) |-> <<>>]
    /\ applied = [p \in Peers(m) |-> <<>>]
    /\ pre = [p \in Peers(m) |-> None]

Start(m, games, t0, last, typed) ==
    /\ codec = Idle
    /\ StartGame(m, games, t0, last, typed)

Init ==
    \/ \E r1, r2, r3 \in RandomNumbers :
          Start("Singleplayer", [p \in {"single"} |-> GameNew(p, r1, r2, r3)],
                0, MaxTicks, 0)
    \/ Start("Multiplayer", [p \in {"client", "server"} |-> GameNew(p, 0, 0, 0)],
             0, MaxTicks, 0)

(***************************************************************************)
(* game.rs: SnakeGame::update                                              *)
(***************************************************************************)
Win(msg) == [kind |-> "Win", msg |-> msg]
Lose(msg) == [kind |-> "Lose", msg |-> msg]
Draw(msg) == [kind |-> "Draw", msg |-> msg]

\* an update that reports Running whatever it found
Outcome_Running(b, pl, op, tg, res, out) ==
    [board |-> b, player |-> pl, opponent |-> op, target |-> tg,
     result |-> None, out |-> out]

Outcome(b, pl, op, tg, res, out) ==
    [board |-> b, player |-> pl, opponent |-> op, target |-> tg,
     result |-> res, out |-> out]

\* a crash test that does not see the player's own body
IsBody_OpponentOnly(pixel) == pixel = OPPONENT_CHAR

\* the pixel tests of the two crash checks
IsBody(pixel) == pixel = PLAYER_CHAR \/ pixel = OPPONENT_CHAR

\* the two comparisons taken the wrong way round
BoardFull_Swapped(pl, op) ==
    IF SnakeSize(pl) < SnakeSize(op) THEN Win("board full, player size wins")
    ELSE IF SnakeSize(pl) > SnakeSize(op) THEN Lose("board full, opponent size wins")
    ELSE Draw("board full, same size")

\* the size comparison of a full board
BoardFull(pl, op) ==
    IF SnakeSize(pl) > SnakeSize(op) THEN Win("board full, player size wins")
    ELSE IF SnakeSize(pl) < SnakeSize(op) THEN Lose("board full, opponent size wins")
    ELSE Draw("board full, same size")

\* the consumed target popped without the new one pushed
ReplaceFront_PopOnly(tg, next) == Tail(tg)

\* lines 347-348: push_back of the new target, pop_front of the consumed one
ReplaceFront(tg, next) == Tail(Append(tg, next))

\* lines 319-351: growth of the player and the next target
PlayerGrowth(b, pl, op, tg, live, tail, opponent_grow, multiplayer, r) ==
    IF ~opponent_grow /\ SnakeHead(pl) = live THEN
        LET pl2 == SnakeGrow(pl, tail)
            b2 == Mark(b, tail, PLAYER_CHAR)
            next == RandomPosition(b2, r)
        IN  IF next = None THEN
                Outcome(b2, pl2, op, tg,
                        IF IsSome(op) THEN BoardFull(pl2, op) ELSE Win("board full"),
                        <<>>)
            ELSE Outcome(Mark(b2, next, TARGET_CHAR), pl2, op,
                         ReplaceFront(tg, next), None,
                         IF multiplayer THEN <<TargetPacket(next)>> ELSE <<>>)
    ELSE Outcome(b, pl, op, tg, None, <<>>)

\* the opponent grows and the consumed target stays at the front of the queue
OpponentStep_NoPop(b, pl, op, tg, live, tail, opponent_tail, multiplayer, r) ==
    IF IsSome(op) THEN
        IF IsBody(Value(b, SnakeHead(op))) THEN
            Outcome(Mark(b, SnakeHead(op), CRASH_CHAR), pl, op, tg,
                    Win("opponent crash"), <<>>)
        ELSE
            LET b2 == Mark(b, SnakeHead(op), OPPONENT_CHAR)
            IN  IF SnakeHead(op) = live THEN
                    LET op2 == SnakeGrow(op, opponent_tail)
                        b3 == Mark(b2, opponent_tail, OPPONENT_CHAR)
                    IN  IF IsFull(b3) THEN
                            Outcome(b3, pl, op2, tg, BoardFull(pl, op2), <<>>)
                        ELSE PlayerGrowth(b3, pl, op2, tg, live, tail,
                                          TRUE, multiplayer, r)
                ELSE PlayerGrowth(b2, pl, op, tg, live, tail, FALSE, multiplayer, r)
    ELSE PlayerGrowth(b, pl, op, tg, live, tail, FALSE, multiplayer, r)

\* lines 288-317: the opponent's crash test and growth
OpponentStep(b, pl, op, tg, live, tail, opponent_tail, multiplayer, r) ==
    IF IsSome(op) THEN
        IF IsBody(Value(b, SnakeHead(op))) THEN
            Outcome(Mark(b, SnakeHead(op), CRASH_CHAR), pl, op, tg,
                    Win("opponent crash"), <<>>)
        ELSE
            LET b2 == Mark(b, SnakeHead(op), OPPONENT_CHAR)
            IN  IF SnakeHead(op) = live THEN
                    LET op2 == SnakeGrow(op, opponent_tail)
                        b3 == Mark(b2, opponent_tail, OPPONENT_CHAR)
                    IN  IF IsFull(b3) THEN
                            Outcome(b3, pl, op2, tg, BoardFull(pl, op2), <<>>)
                        ELSE PlayerGrowth(b3, pl, op2, Tail(tg), live, tail,
                                          TRUE, multiplayer, r)
                ELSE PlayerGrowth(b2, pl, op, tg, live, tail, FALSE, multiplayer, r)
    ELSE PlayerGrowth(b, pl, op, tg, live, tail, FALSE, multiplayer, r)

\* lines 264-267: the test of the two heads
HeadsCrash(pl, op) == SnakeHead(pl) = SnakeHead(op)

\* the player's crash tested before the two heads
CrashTest_PlayerFirst(b, pl, op) ==
    IF IsBody(Value(b, SnakeHead(pl))) THEN "player"
    ELSE IF IsSome(op) /\ HeadsCrash(pl, op) THEN "heads"
    ELSE "none"

\* lines 257-283: which crash test ends the tick after both snakes advanced,
\* in the order update() makes them
CrashTest(b, pl, op) ==
    IF IsSome(op) /\ HeadsCrash(pl, op) THEN "heads"
    ELSE IF IsBody(Value(b, SnakeHead(pl))) THEN "player"
    ELSE "none"

\* lines 249-262: both tails cleared, the live target marked again and both
\* snakes advanced, for a game g = [board, player, opponent, target] whose
\* target queue is not empty
Advanced(g) ==
    LET tail == SnakeTail(g.player)
        b1 == Unmark(g.board, tail)
        live == Head(g.target)
        b2 == Mark(b1, live, TARGET_CHAR)
        opponent_tail == IF IsSome(g.opponent) THEN SnakeTail(g.opponent) ELSE None
    IN  [tail |-> tail,
         live |-> live,
         opponent_tail |-> opponent_tail,
         board |-> IF IsSome(g.opponent) THEN Unmark(b2, opponent_tail) ELSE b2,
         player |-> SnakeUpdate(g.player),
         opponent |-> IF IsSome(g.opponent) THEN SnakeUpdate(g.opponent) ELSE None]

\* an update that calls a crash of the player a draw
Update_CrashDraws(g, multiplayer, r) ==
    LET a == Advanced(g)
        tail == a.tail
        live == a.live
        opponent_tail == a.opponent_tail
        b3 == a.board
        pl == a.player
        op == a.opponent
        test == CrashTest(b3, pl, op)
    IN  IF test = "heads" THEN
            Outcome(Mark(b3, SnakeHead(pl), CRASH_CHAR), pl, op, g.target,
                    Draw("heads crash"), <<>>)
        ELSE IF test = "player" THEN
            LET b4 == IF IsSome(op) THEN Mark(b3, SnakeHead(op), OPPONENT_CHAR) ELSE b3
            IN  Outcome(Mark(b4, SnakeHead(pl), CRASH_CHAR), pl, op, g.target,
                        Draw("player crash"), <<>>)
        ELSE OpponentStep(Mark(b3, SnakeHead(pl), PLAYER_CHAR), pl, op, g.target,
                          live, tail, opponent_tail, multiplayer, r)

\* update() of a game g whose target queue is not empty; r is the value of
\* random_number()
Update(g, multiplayer, r) ==
    LET a == Advanced(g)
        tail == a.tail
        live == a.live
        opponent_tail == a.opponent_tail
        b3 == a.board
        pl == a.player
        op == a.opponent
        test == CrashTest(b3, pl, op)
    IN  IF test = "heads" THEN
            Outcome(Mark(b3, SnakeHead(pl), CRASH_CHAR), pl, op, g.target,
                    Draw("heads crash"), <<>>)
        ELSE IF test = "player" THEN
            LET b4 == IF IsSome(op) THEN Mark(b3, SnakeHead(op), OPPONENT_CHAR) ELSE b3
            IN  Outcome(Mark(b4, SnakeHead(pl), CRASH_CHAR), pl, op, g.target,
                        Lose("player crash"), <<>>)
        ELSE OpponentStep(Mark(b3, SnakeHead(pl), PLAYER_CHAR), pl, op, g.target,
                          live, tail, opponent_tail, multiplayer, r)

(***************************************************************************)
(* game.rs: SnakeGame::play, one action per step of the tick loop          *)
(***************************************************************************)
\* the process of q has ended, which closes its end of the connection
Closed(q) == pc[q] \in {"done", "panicked"}

\* every packet written to the stream twice
SendAll_Twice(p, packets) ==
    IF socket[p] /\ packets # <<>>
    THEN /\ wire' = [wire EXCEPT ![Other(p)] = @ \o packets \o packets]
         /\ sent' = [sent EXCEPT ![p] = @ \o packets \o packets]
    ELSE UNCHANGED <<wire, sent>>

\* send_packet: the packets reach the other peer's stream in order
SendAll(p, packets) ==
    IF socket[p] /\ packets # <<>>
    THEN /\ wire' = [wire EXCEPT ![Other(p)] = @ \o packets]
         /\ sent' = [sent EXCEPT ![p] = @ \o packets]
    ELSE UNCHANGED <<wire, sent>>

\* the input thread: one line of stdin became a direction; keys counts the
\* lines read by the input threads of all peers
KeyPress(p, direction) ==
    /\ ~Closed(p)
    /\ keys < MaxKeys
    /\ keys' = keys + 1
    /\ ctrl_rx' = [ctrl_rx EXCEPT ![p] = Append(@, direction)]
    /\ UNCHANGED <<codec, mode, board, player, opponent, target, socket, queue, tick_id,
                   pc, result, wire, blocking, stray, horizon, sent, applied, pre>>

\* a loop that goes on after a terminal result
LoopTest_Forever(res) == "loop"

\* line 174: the test of the while loop, after update() returned res
LoopTest(res) == IF res = None THEN "loop" ELSE "done"

\* the fields of the game of p that update() works on
Game(p) ==
    [board |-> board[p], player |-> player[p],
     opponent |-> opponent[p], target |-> target[p]]

\* line 175
NextTick(t) == t + 1

\* lines 174-175: the loop test and the increment of the counter
LoopTick(p) ==
    /\ pc[p] = "loop"
    /\ tick_id[p] < horizon
    /\ tick_id' = [tick_id EXCEPT ![p] = NextTick(@)]
    /\ pc' = [pc EXCEPT ![p] = "input"]
    /\ UNCHANGED <<codec, mode, board, player, opponent, target, socket, queue,
                   result, ctrl_rx, wire, blocking, keys, stray, horizon, sent, applied, pre>>

\* a tick that empties the channel and keeps the oldest event only
Input_TakeAll(p) ==
    /\ pc[p] = "input"
    /\ IF ctrl_rx[p] # <<>>
       THEN /\ player' = [player EXCEPT ![p] = SnakeControl(@, Head(ctrl_rx[p]))]
            /\ ctrl_rx' = [ctrl_rx EXCEPT ![p] = <<>>]
            /\ SendAll(p, <<ControlPacket(Head(ctrl_rx[p]))>>)
       ELSE UNCHANGED <<player, ctrl_rx, wire, sent>>
    /\ pc' = [pc EXCEPT ![p] = IF socket[p] THEN "synchronize" ELSE "update"]
    /\ UNCHANGED <<codec, mode, board, opponent, target, socket, queue, tick_id,
                   result, blocking, keys, stray, horizon, applied, pre>>

\* lines 177-185: try_recv, control(true, direction), send_control
Input(p) ==
    /\ pc[p] = "input"
    /\ IF ctrl_rx[p] # <<>>
       THEN /\ player' = [player EXCEPT ![p] = SnakeControl(@, Head(ctrl_rx[p]))]
            /\ ctrl_rx' = [ctrl_rx EXCEPT ![p] = Tail(@)]
            /\ SendAll(p, <<ControlPacket(Head(ctrl_rx[p]))>>)
       ELSE UNCHANGED <<player, ctrl_rx, wire, sent>>
    /\ pc' = [pc EXCEPT ![p] = IF socket[p] THEN "synchronize" ELSE "update"]
    /\ UNCHANGED <<codec, mode, board, opponent, target, socket, queue, tick_id,
                   result, blocking, keys, stray, horizon, applied, pre>>

\* a Sync packet that carries the counter of the previous iteration
SyncTick_BeforeIncrement(p) == tick_id[p] - 1

\* the tick a Sync packet of synchronize carries
SyncTick(p) == tick_id[p]

\* a synchronize that sends its Sync and returns without waiting for the
\* other peer's
SyncSend_NoWait(p) ==
    /\ pc[p] = "synchronize"
    /\ SendAll(p, <<SyncPacket(SyncTick(p))>>)
    /\ blocking' = [blocking EXCEPT ![p] = FALSE]
    /\ pc' = [pc EXCEPT ![p] = "drain"]
    /\ UNCHANGED <<codec, mode, board, player, opponent, target, socket, queue, tick_id,
                   result, ctrl_rx, keys, stray, horizon, applied, pre>>

\* lines 354-380: synchronize sends Sync and makes the socket blocking
SyncSend(p) ==
    /\ pc[p] = "synchronize"
    /\ SendAll(p, <<SyncPacket(SyncTick(p))>>)
    /\ blocking' = [blocking EXCEPT ![p] = TRUE]
    /\ pc' = [pc EXCEPT ![p] = "barrier"]
    /\ UNCHANGED <<codec, mode, board, player, opponent, target, socket, queue, tick_id,
                   result, ctrl_rx, keys, stray, horizon, applied, pre>>

\* a blocking read that gives up after a timeout
RecvEmpty_Timeout(is_blocking, closed) ==
    IF closed THEN "disconnected" ELSE "none"

\* recv_packet on a stream with nothing to read: read() returns 0 bytes once
\* the other end is closed ("disconnected"), waits on a blocking socket
\* ("block") and fails with WouldBlock on a non-blocking one ("none")
RecvEmpty(is_blocking, closed) ==
    IF closed THEN "disconnected"
    ELSE IF is_blocking THEN "block"
    ELSE "none"

\* a barrier loop that forgets to queue the events it reads
BarrierArm_DropEvents(packet, own_tick) ==
    IF packet.opcode = "Sync" /\ TickFromBytes(packet.data, 8) = own_tick
    THEN "break" ELSE "discard"

\* what one iteration of the loop of lines 382-411 does with a packet:
\* "break", "discard" or "queue"
BarrierArm(packet, own_tick) ==
    IF packet.opcode = "Sync"
    THEN IF TickFromBytes(packet.data, 8) = own_tick THEN "break" ELSE "discard"
    ELSE "queue"

\* a barrier that returns with the socket still blocking
BarrierRecv_NoRestore(p) ==
    /\ pc[p] = "barrier"
    /\ IF wire[p] # <<>>
       THEN LET packet == Head(wire[p])
                arm == BarrierArm(packet, tick_id[p])
            IN  /\ wire' = [wire EXCEPT ![p] = Tail(@)]
                /\ queue' = [queue EXCEPT ![p] =
                                IF arm = "queue" THEN Append(@, packet) ELSE @]
                /\ pc' = [pc EXCEPT ![p] = IF arm = "break" THEN "drain" ELSE @]
                /\ UNCHANGED blocking
       ELSE /\ RecvEmpty(blocking[p], Closed(Other(p))) # "block"
            /\ pc' = [pc EXCEPT ![p] = "panicked"]
            /\ UNCHANGED <<wire, queue, blocking>>
    /\ UNCHANGED <<codec, mode, board, player, opponent, target, socket, tick_id,
                   result, ctrl_rx, keys, stray, horizon, sent, applied, pre>>

\* lines 382-424: one blocking recv_packet of the barrier loop
BarrierRecv(p) ==
    /\ pc[p] = "barrier"
    /\ IF wire[p] # <<>>
       THEN LET packet == Head(wire[p])
                arm == BarrierArm(packet, tick_id[p])
            IN  /\ wire' = [wire EXCEPT ![p] = Tail(@)]
                /\ queue' = [queue EXCEPT ![p] =
                                IF arm = "queue" THEN Append(@, packet) ELSE @]
                /\ pc' = [pc EXCEPT ![p] = IF arm = "break" THEN "drain" ELSE @]
                /\ blocking' = [blocking EXCEPT ![p] =
                                IF arm = "break" THEN FALSE ELSE @]
       ELSE \* "disconnected", or the None arm of line 407
            /\ RecvEmpty(blocking[p], Closed(Other(p))) # "block"
            /\ pc' = [pc EXCEPT ![p] = "panicked"]
            /\ UNCHANGED <<wire, queue, blocking>>
    /\ UNCHANGED <<codec, mode, board, player, opponent, target, socket, tick_id,
                   result, ctrl_rx, keys, stray, horizon, sent, applied, pre>>

\* process(): the new opponent and target queue, or a panic
Process(op, tg, packet) ==
    CASE packet.opcode = "Sync" ->
            [panic |-> TRUE, opponent |-> op, target |-> tg]
      [] packet.opcode = "NewDirection" ->
            IF IsSome(op) /\ DirectionFrom(packet.data[1]) # "panic"
            THEN [panic |-> FALSE,
                  opponent |-> SnakeControl(op, DirectionFrom(packet.data[1])),
                  target |-> tg]
            ELSE [panic |-> TRUE, opponent |-> op, target |-> tg]
      [] packet.opcode = "NewTarget" ->
            [panic |-> FALSE, opponent |-> op,
             target |-> Append(tg, <<packet.data[1], packet.data[2]>>)]

\* a drain loop that reads the socket before the pending queue
DrainSource_SocketFirst(pending, stream) ==
    IF stream # <<>> THEN "socket"
    ELSE IF pending # <<>> THEN "queue"
    ELSE "none"

\* where the drain loop of lines 190-206 takes its next packet from:
\* the pending queue first, then the socket
DrainSource(pending, stream) ==
    IF pending # <<>> THEN "queue"
    ELSE IF stream # <<>> THEN "socket"
    ELSE "none"

\* lines 190-206: one iteration of the drain loop
Drain(p) ==
    /\ pc[p] = "drain"
    /\ LET source == DrainSource(queue[p], wire[p])
       IN  IF source = "none"
           THEN /\ RecvEmpty(blocking[p], Closed(Other(p))) # "block"
                /\ pc' = [pc EXCEPT ![p] =
                            IF RecvEmpty(blocking[p], Closed(Other(p))) = "none"
                            THEN "update" ELSE "panicked"]
                /\ UNCHANGED <<queue, wire, opponent, target, applied>>
           ELSE LET packet == IF source = "queue" THEN Head(queue[p]) ELSE Head(wire[p])
                    done == Process(opponent[p], target[p], packet)
                IN  /\ queue' = [queue EXCEPT ![p] =
                                    IF source = "queue" THEN Tail(@) ELSE @]
                    /\ wire' = [wire EXCEPT ![p] =
                                    IF source = "socket" THEN Tail(@) ELSE @]
                    /\ opponent' = [opponent EXCEPT ![p] = done.opponent]
                    /\ target' = [target EXCEPT ![p] = done.target]
                    /\ pc' = [pc EXCEPT ![p] = IF done.panic THEN "panicked" ELSE @]
                    /\ applied' = [applied EXCEPT ![p] =
                                    IF done.panic THEN @
                                    ELSE Append(@, [packet |-> packet, via |-> source])]
    /\ UNCHANGED <<codec, mode, board, player, socket, tick_id, result, ctrl_rx,
                   blocking, keys, stray, horizon, sent, pre>>

\* lines 209-212: update(), and the loop ends with a result
DoUpdate(p) ==
    /\ pc[p] = "update"
    /\ IF target[p] = <<>>
       THEN \* front().unwrap() of an empty queue
            /\ pc' = [pc EXCEPT ![p] = "panicked"]
            /\ UNCHANGED <<board, player, opponent, target, result, wire, sent, pre>>
       ELSE \E r \in RandomNumbers :
            LET new == Update(Game(p), socket[p], r)
            IN  /\ board' = [board EXCEPT ![p] = new.board]
                /\ player' = [player EXCEPT ![p] = new.player]
                /\ opponent' = [opponent EXCEPT ![p] = new.opponent]
                /\ target' = [target EXCEPT ![p] = new.target]
                /\ result' = [result EXCEPT ![p] = new.result]
                /\ SendAll(p, new.out)
                /\ pc' = [pc EXCEPT ![p] = LoopTest(new.result)]
                /\ pre' = [pre EXCEPT ![p] =
                             [tick_id |-> tick_id[p], player |-> player[p],
                              opponent |-> opponent[p], live |-> Head(target[p])]]
    /\ UNCHANGED <<codec, mode, socket, queue, tick_id, ctrl_rx, blocking, keys,
                   stray, horizon, applied>>

Next ==
    \/ \E p \in Peers(mode), direction \in Direction : KeyPress(p, direction)
    \/ \E p \in Peers(mode) : LoopTick(p)
    \/ \E p \in Peers(mode) : Input(p)
    \/ \E p \in Peers(mode) : SyncSend(p)
    \/ \E p \in Peers(mode) : BarrierRecv(p)
    \/ \E p \in Peers(mode) : Drain(p)
    \/ \E p \in Peers(mode) : DoUpdate(p)

Spec == Init /\ [][Next]_vars

(***************************************************************************)
(* A remote end that does not keep to the protocol: besides what the other *)
(* peer sends, a Sync packet with any tick counter arrives on the stream   *)
(* of a peer that waits in the barrier.                                    *)
(***************************************************************************)
MaxStray == 1

Stray(p, t) ==
    /\ socket[p]
    /\ pc[p] = "barrier"
    /\ stray[p] < MaxStray
    /\ stray' = [stray EXCEPT ![p] = @ + 1]
    /\ wire' = [wire EXCEPT ![p] = Append(@, SyncPacket(t))]
    /\ UNCHANGED <<codec, mode, board, player, opponent, target, socket, queue, tick_id,
                   pc, result, ctrl_rx, blocking, keys, horizon, sent, applied, pre>>

NextRemote ==
    \/ Next
    \/ \E p \in Peers(mode), t \in 0..(MaxTicks + 1) : Stray(p, t)

InitRemote ==
    Start("Multiplayer", [p \in {"client", "server"} |-> GameNew(p, 0, 0, 0)],
          0, MaxTicks, 0)

SpecRemote == InitRemote /\ [][NextRemote]_vars

(***************************************************************************)
(* Games in progress.  A networked game that has run for MidTick ticks,    *)
(* seen from the client: the two snakes after they ate and turned, and the *)
(* live target.  The server holds the same game with the snakes swapped.   *)
(* Both peers are at the top of the tick loop with nothing in flight.      *)
(* SoloScenarios are single-player games in progress.                      *)
(***************************************************************************)
MidTick == 40
MaxMidTicks == 1

Scenarios == {
    \* two snakes of two segments about to swap heads
    [player |-> [body |-> <<<<3, 3>>, <<3, 2>>>>, direction |-> "Right"],
     opponent |-> [body |-> <<<<3, 4>>, <<3, 5>>>>, direction |-> "Left"],
     live |-> <<5, 5>>],
    \* two fresh snakes one cell on either side of the first target
    [player |-> [body |-> <<<<4, 3>>>>, direction |-> "Right"],
     opponent |-> [body |-> <<<<4, 5>>>>, direction |-> "Left"],
     live |-> <<4, 4>>],
    \* a curled snake of five segments next to a fresh snake
    [player |-> [body |-> <<<<2, 2>>, <<2, 3>>, <<3, 3>>, <<3, 2>>, <<4, 2>>>>,
                 direction |-> "Left"],
     opponent |-> [body |-> <<<<3, 1>>>>, direction |-> "Right"],
     live |-> <<6, 6>>] }

\* single-player games in progress: a snake of three segments, the live
\* target one cell ahead of it or elsewhere
SoloScenarios == {
    [player |-> [body |-> <<<<2, 2>>, <<2, 1>>, <<2, 0>>>>, direction |-> "Right"],
     opponent |-> None,
     live |-> <<2, 3>>],
    [player |-> [body |-> <<<<5, 0>>, <<6, 0>>, <<7, 0>>>>, direction |-> "Up"],
     opponent |-> None,
     live |-> <<1, 6>>] }

Range(seq) == {seq[i] : i \in 1..Len(seq)}

\* the board on which exactly the two bodies and the live target are marked
BoardOf(pl, op, live) ==
    [pos \in Positions |->
        IF pos \in Range(pl.body) THEN PLAYER_CHAR
        ELSE IF IsSome(op) /\ pos \in Range(op.body) THEN OPPONENT_CHAR
        ELSE IF pos = live THEN TARGET_CHAR
        ELSE EMPTY_CHAR]

GameMid(role, sc) ==
    LET pl == IF role = "server" THEN sc.opponent ELSE sc.player
        op == IF role = "server" THEN sc.player ELSE sc.opponent
    IN  [board |-> BoardOf(pl, op, sc.live), player |-> pl, opponent |-> op,
         target |-> <<sc.live>>, socket |-> role # "single"]

InitMid ==
    \/ \E sc \in Scenarios :
          Start("Multiplayer", [p \in {"client", "server"} |-> GameMid(p, sc)],
                MidTick, MidTick + MaxMidTicks, 0)
    \/ \E sc \in SoloScenarios :
          Start("Singleplayer", [p \in {"single"} |-> GameMid(p, sc)],
                MidTick, MidTick + MaxMidTicks, 0)

SpecMid == InitMid /\ [][Next]_vars

(***************************************************************************)
(* Late games.  The player is a closed ring over the first rows of the     *)
(* board whose head is about to step on its own tail; the opponent fills   *)
(* the other rows but one cell, the live target, which is in front of its  *)
(* head.  The last scenario has two fresh snakes, the player about to step *)
(* on the cell the opponent leaves while the opponent steps on the target. *)
(* SoloLate is the single-player game with one cell left.  The input       *)
(* threads of a late game have read a line before.                         *)
(***************************************************************************)
LateTick == 70

\* a ring over rows 0..rows-1 (rows even): row 0 left to right, the other
\* rows to and fro over columns 7..1, then column 0 upwards
Ring(rows) ==
    [k \in 1..(BOARD_SIZE * rows) |->
        IF k <= BOARD_SIZE THEN <<0, k - 1>>
        ELSE IF k <= BOARD_SIZE + (BOARD_SIZE - 1) * (rows - 1) THEN
            LET j == k - BOARD_SIZE - 1
                row == 1 + j \div (BOARD_SIZE - 1)
                i == j % (BOARD_SIZE - 1)
            IN  <<row, IF row % 2 = 1 THEN BOARD_SIZE - 1 - i ELSE 1 + i>>
        ELSE <<BOARD_SIZE * rows - k + 1, 0>>]

\* rows from..7, to and fro
Rest(from) ==
    [k \in 1..(BOARD_SIZE * (BOARD_SIZE - from)) |->
        LET row == from + (k - 1) \div BOARD_SIZE
            i == (k - 1) % BOARD_SIZE
        IN  <<row, IF (row - from) % 2 = 0 THEN i ELSE BOARD_SIZE - 1 - i>>]

LateScenarios ==
    { [player |-> [body |-> Ring(rows), direction |-> "Down"],
       opponent |-> [body |-> Tail(Rest(rows)), direction |-> "Left"],
       live |-> Rest(rows)[1]] : rows \in {2, 4, 6} }
    \cup
    { [player |-> [body |-> <<<<3, 5>>>>, direction |-> "Down"],
       opponent |-> [body |-> <<<<4, 5>>>>, direction |-> "Left"],
       live |-> <<4, 4>>] }

SoloLate ==
    { [player |-> [body |-> Tail(Rest(0)), direction |-> "Left"],
       opponent |-> None,
       live |-> Rest(0)[1]] }

InitLate ==
    \/ \E sc \in LateScenarios :
          Start("Multiplayer", [p \in {"client", "server"} |-> GameMid(p, sc)],
                LateTick, LateTick + MaxMidTicks, 1)
    \/ \E sc \in SoloLate :
          Start("Singleplayer", [p \in {"single"} |-> GameMid(p, sc)],
                LateTick, LateTick + MaxMidTicks, 1)

SpecLate == InitLate /\ [][Next]_vars

(***************************************************************************)
(* A game in progress followed for a few ticks.  The client's player, one  *)
(* segment, is about to eat the live target; the server's player, three    *)
(* segments, is about to enter the cell the client's player leaves.  The   *)
(* input threads have one more line to read.                               *)
(***************************************************************************)
DeepTicks == 3

DeepScenarios ==
    { [player |-> [body |-> <<<<0, 3>>>>, direction |-> "Left"],
       opponent |-> [body |-> <<<<1, 3>>, <<2, 3>>, <<3, 3>>>>, direction |-> "Up"],
       live |-> <<0, 2>>] }

InitDeep ==
    \E sc \in DeepScenarios :
        Start("Multiplayer", [p \in {"client", "server"} |-> GameMid(p, sc)],
              LateTick, LateTick + DeepTicks, MaxKeys - 1)

SpecDeep == InitDeep /\ [][Next]_vars

(***************************************************************************)
(* Every start of the single-player game: new() with each cell for the     *)
(* head and each heading, and the networked start.                         *)
(***************************************************************************)
InitWide ==
    \/ \E r1 \in 0..(BOARD_SIZE * BOARD_SIZE - 1), r2 \in 0..3, r3 \in RandomNumbers :
          Start("Singleplayer", [p \in {"single"} |-> GameNew(p, r1, r2, r3)],
                0, MaxMidTicks, 0)
    \/ Start("Multiplayer", [p \in {"client", "server"} |-> GameNew(p, 0, 0, 0)],
             0, MaxMidTicks, 0)

SpecWide == InitWide /\ [][Next]_vars

(***************************************************************************)
(* The codec on its own.  A packet is built by Packet::new and push_data,  *)
(* encoded by send_packet and decoded by recv_packet; or recv_packet       *)
(* decodes a buffer that a remote end sent, which may be damaged.          *)
(***************************************************************************)
MaxPayload == 2

\* the byte values payloads and damaged fields are drawn from
ByteSamples == {0, 1, 128, 255}

\* all payloads of at most MaxPayload bytes over ByteSamples
ShortPayloads ==
    UNION {[1..n -> ByteSamples] : n \in 0..MaxPayload}

\* one payload of each of the longer sizes, the last one byte too long
LongSizes == {8, 255, 256, 257, U16_MAX, U16_MAX + 1}

LongPayloads == {[k \in 1..n |-> (7 * k) % 256] : n \in LongSizes}

\* the payloads the game sends
GamePayloads ==
    {SyncPacket(t).data : t \in {0, 1, MidTick, 256, 65536}}
    \cup {ControlPacket(d).data : d \in Direction}
    \cup {TargetPacket(pos).data : pos \in Positions}

\* valid buffers, to be damaged
SoundBuffers ==
    { Encode(SyncPacket(1)), Encode(ControlPacket("Left")),
      Encode(TargetPacket(<<4, 4>>)), Encode(PacketNew("NewTarget", <<>>)),
      Encode(PacketNew("NewDirection", [k \in 1..256 |-> 255])) }

\* the buffer cut short, extended, or with one field overwritten
Damaged(buffer) ==
    {SubSeq(buffer, 1, n) : n \in 0..(Len(buffer) - 1)}
    \cup {buffer \o <<b>> : b \in ByteSamples}
    \cup {[buffer EXCEPT ![i] = (@ + 1) % 256] : i \in 1..8}
    \cup {[buffer EXCEPT ![9] = hi, ![10] = lo] :
             hi \in ByteSamples, lo \in ByteSamples \cup {2, 3, 4}}
    \cup {[buffer EXCEPT ![11] = hi, ![12] = lo] :
             hi \in ByteSamples, lo \in ByteSamples \cup {2, 8}}

ReceivedBuffers == SoundBuffers \cup UNION {Damaged(b) : b \in SoundBuffers}

InitCodec ==
    /\ \/ \E opcode \in Opcode,
             data \in ShortPayloads \cup LongPayloads \cup GamePayloads :
             codec = [stage |-> "new", packet |-> PacketNew(opcode, <<>>),
                      data |-> data, buffer |-> <<>>, decoded |-> None]
       \/ \E buffer \in ReceivedBuffers :
             codec = [stage |-> "received", packet |-> None,
                      data |-> <<>>, buffer |-> buffer, decoded |-> None]
    /\ StartGame("Singleplayer", [p \in {"single"} |-> GameNew(p, 0, 0, 0)], 0, 0, 0)

\* push_data of the payload
PushStep ==
    /\ codec.stage = "new"
    /\ codec' = IF PushData(codec.packet, codec.data).panic
                THEN [codec EXCEPT !.stage = "panicked"]
                ELSE [codec EXCEPT !.stage = "packet",
                                   !.packet = PushData(codec.packet, codec.data).packet]
    /\ UNCHANGED game_vars

\* send_packet: packet.encode(), and the bytes cross the stream
EncodeStep ==
    /\ codec.stage = "packet"
    /\ codec' = [codec EXCEPT !.stage = "received", !.buffer = Encode(codec.packet)]
    /\ UNCHANGED game_vars

\* recv_packet: Packet::decode(&buffer)
DecodeStep ==
    /\ codec.stage = "received"
    /\ codec' = [codec EXCEPT !.stage = "decoded", !.decoded = Decode(codec.buffer)]
    /\ UNCHANGED game_vars

NextCodec ==
    \/ PushStep
    \/ EncodeStep
    \/ DecodeStep

SpecCodec == InitCodec /\ [][NextCodec]_vars

(***************************************************************************)
(* Reading the histories                                                   *)
(***************************************************************************)
IsEvent(packet) == packet.opcode # "Sync"

Events(packets) == SelectSeq(packets, IsEvent)

AppliedPackets(p) == [i \in 1..Len(applied[p]) |-> applied[p][i].packet]

\* the position of Sync(t) among the packets q sent, 0 if q did not send it
SyncIndex(q, t) ==
    IF \E i \in 1..Len(sent[q]) : sent[q][i] = SyncPacket(t)
    THEN CHOOSE i \in 1..Len(sent[q]) :
            /\ sent[q][i] = SyncPacket(t)
            /\ \A j \in 1..(i - 1) : sent[q][j] # SyncPacket(t)
    ELSE 0

\* the events q sent before its Sync(t)
SentBeforeSync(q, t) == Events(SubSeq(sent[q], 1, SyncIndex(q, t) - 1))

Networked == mode = "Multiplayer"

\* the two games hold the same snakes, each seen from its own side
Mirrored(a, b) ==
    /\ player[a] = opponent[b]
    /\ opponent[a] = player[b]

(***************************************************************************)
(* C1: when a peer is about to compute the movement of tick T, the events  *)
(* it has applied are exactly the events the other peer sent before its    *)
(* Sync(T): none is missing and none sent after that Sync was applied.     *)
(***************************************************************************)
C1_AppliedBeforeMovement ==
    Networked =>
        \A p \in Peers(mode) :
            pc[p] = "update" =>
                AppliedPackets(p) = SentBeforeSync(Other(p), tick_id[p])

(***************************************************************************)
(* C2: whenever both peers have completed update for the same tick and     *)
(* are still running, each peer's player is the other peer's opponent,     *)
(* body and heading.                                                       *)
(***************************************************************************)
C2_NeverDiverge ==
    (/\ Networked
     /\ pc["client"] = "loop"
     /\ pc["server"] = "loop"
     /\ tick_id["client"] = tick_id["server"]
     /\ pre["client"] # None)
    => Mirrored("client", "server")

(***************************************************************************)
(* C3: when the two peers ran update for the same tick on mirrored states  *)
(* with the same live target, either both returned Running or both         *)
(* returned a terminal result, and the two results are the same outcome    *)
(* seen from the two sides (Win/Lose, Lose/Win, Draw/Draw).                *)
(***************************************************************************)
SameOutcome(a, b) ==
    \/ a = None /\ b = None
    \/ /\ a # None
       /\ b # None
       /\ \/ a.kind = "Win" /\ b.kind = "Lose"
          \/ a.kind = "Lose" /\ b.kind = "Win"
          \/ a.kind = "Draw" /\ b.kind = "Draw"

RanSameTickMirrored ==
    /\ Networked
    /\ pre["client"] # None
    /\ pre["server"] # None
    /\ pre["client"].tick_id = pre["server"].tick_id
    /\ pre["client"].player = pre["server"].opponent
    /\ pre["client"].opponent = pre["server"].player
    /\ pre["client"].live = pre["server"].live

Drop(seq, n) == SubSeq(seq, n + 1, Len(seq))

C4_PendingAtBarrierExit ==
    [][\A p \in Peers(mode) :
        (pc[p] = "barrier" /\ pc'[p] = "drain") =>
            /\ queue'[p] = Drop(SentBeforeSync(Other(p), tick_id[p]), Len(applied[p]))
            /\ \A i \in 1..Len(queue'[p]) : queue'[p][i].opcode # "Sync"]_vars

\* a peer has just left the barrier with an event pending
C4_Witness ==
    \E p \in Peers(mode) :
        /\ pc[p] = "drain"
        /\ queue[p] # <<>>
        /\ SyncIndex(Other(p), tick_id[p]) > 1

(***************************************************************************)
(* C5: no event is dropped or reordered.  The events a peer sent are, in   *)
(* send order, the ones the other peer has applied, then the ones in its   *)
(* pending queue, then the ones still on the wire; and when the receiver   *)
(* computes the movement of tick T its pending queue is empty and every    *)
(* event sent before Sync(T) has been applied.                             *)
(***************************************************************************)
C5_EventsInWireOrder ==
    Networked =>
        \A p \in Peers(mode) :
            /\ Events(sent[Other(p)]) =
                   AppliedPackets(p) \o queue[p] \o Events(wire[p])
            /\ pc[p] = "update" =>
                   /\ queue[p] = <<>>
                   /\ Len(applied[p]) >= Len(SentBeforeSync(Other(p), tick_id[p]))

\* a peer applied one event from the pending queue and one read by the drain
C5_Witness ==
    \E p \in Peers(mode) :
        /\ \E i \in 1..Len(applied[p]) : applied[p][i].via = "queue"
        /\ \E i \in 1..Len(applied[p]) : applied[p][i].via = "socket"

(***************************************************************************)
(* C6: a peer that takes from the stream, in the barrier loop, a Sync      *)
(* packet whose tick counter differs from its own aborts.                  *)
(***************************************************************************)
MismatchedSyncAhead(p) ==
    /\ pc[p] = "barrier"
    /\ wire[p] # <<>>
    /\ Head(wire[p]).opcode = "Sync"
    /\ TickFromBytes(Head(wire[p]).data, 8) # tick_id[p]

C6_MismatchedSyncFatal ==
    [][\A p \in Peers(mode) :
        (MismatchedSyncAhead(p) /\ wire'[p] = Tail(wire[p])) =>
            pc'[p] = "panicked"]_vars

(***************************************************************************)
(* C7: the barrier has no timeout.  While the other peer has not sent      *)
(* Sync(T), a peer in synchronize for tick T stays in it: it does not run  *)
(* update, its tick counter stays T, and it ends only with the connection. *)
(***************************************************************************)
C7_BarrierNeverTimesOut ==
    [][\A p \in Peers(mode) :
        (pc[p] = "barrier" /\ SyncIndex(Other(p), tick_id[p]) = 0) =>
            /\ tick_id'[p] = tick_id[p]
            /\ pre'[p] = pre[p]
            /\ \/ pc'[p] = "barrier"
               \/ pc'[p] = "panicked" /\ Closed(Other(p))]_vars

\* a peer waits in the barrier for a Sync the running other peer has not sent
C7_Witness ==
    \E p \in Peers(mode) :
        /\ pc[p] = "barrier"
        /\ wire[p] = <<>>
        /\ SyncIndex(Other(p), tick_id[p]) = 0
        /\ pc[Other(p)] = "loop"
        /\ tick_id[Other(p)] < tick_id[p]

(***************************************************************************)
(* C8 as stated: the target queue of a peer whose game has not ended       *)
(* holds at least one entry.                                               *)
(***************************************************************************)
C8_TargetNeverEmpty ==
    \A p \in Peers(mode) : ~Closed(p) => Len(target[p]) >= 1

(***************************************************************************)
(* C8 amended: the target queue holds an entry when the game starts, and   *)
(* the only step that empties it is an update in which the opponent's new  *)
(* head is the live target and the opponent grows.                         *)
(***************************************************************************)
C8_TargetEmptiedOnlyByOpponent ==
    /\ \A p \in Peers(mode) : target[p] # <<>>
    /\ [][\A p \in Peers(mode) :
            (target[p] # <<>> /\ target'[p] = <<>>) =>
                /\ pc[p] = "update"
                /\ IsSome(opponent[p])
                /\ SnakeHead(opponent'[p]) = Head(target[p])
                /\ SnakeSize(opponent'[p]) = SnakeSize(opponent[p]) + 1]_vars

\* a running peer between ticks with an empty target queue
C8_Witness ==
    \E p \in Peers(mode) :
        /\ pc[p] = "loop"
        /\ target[p] = <<>>
        /\ SnakeSize(opponent[p]) = 2

(***************************************************************************)
(* C9: the tick counter starts at 0; it changes only at the start of an    *)
(* iteration of the tick loop, by exactly 1 and before the input, the      *)
(* sends and the receives of that iteration; and a Sync packet carries the *)
(* counter of the iteration that sends it.                                 *)
(***************************************************************************)
Last(seq) == seq[Len(seq)]

C9_TickCounter ==
    /\ \A p \in Peers(mode) : tick_id[p] = 0
    /\ [][\A p \in Peers(mode) :
            /\ tick_id'[p] # tick_id[p] =>
                  /\ pc[p] = "loop"
                  /\ pc'[p] = "input"
                  /\ tick_id'[p] = tick_id[p] + 1
                  /\ UNCHANGED <<ctrl_rx, wire, sent, queue, applied>>
            /\ (sent'[p] # sent[p] /\ Last(sent'[p]).opcode = "Sync") =>
                  /\ pc[p] = "synchronize"
                  /\ TickFromBytes(Last(sent'[p]).data, 8) = tick_id[p]
                  /\ tick_id[p] > 0]_vars

\* a peer in its second iteration has sent the Sync of that iteration
C9_Witness ==
    \E p \in Peers(mode) :
        /\ tick_id[p] = 2
        /\ sent[p] # <<>>
        /\ Last(sent[p]) = SyncPacket(2)

(***************************************************************************)
(* C10: when an opponent exists and the two heads are on the same cell     *)
(* after both snakes advanced, update returns Draw("heads crash") and      *)
(* marks that cell Crash, whatever else is on that cell.                   *)
(***************************************************************************)
C10_HeadsCrashFirst ==
    [][\A p \in Peers(mode) :
        (/\ pc[p] = "update"
         /\ pc'[p] # "update"
         /\ target[p] # <<>>
         /\ IsSome(opponent[p])
         /\ SnakeHead(player'[p]) = SnakeHead(opponent'[p])) =>
            /\ result'[p] = Draw("heads crash")
            /\ board'[p][SnakeHead(player'[p])] = CRASH_CHAR
            /\ pc'[p] = "done"]_vars

\* the heads met on a cell that a body still occupied
C10_Witness ==
    \E p \in Peers(mode) :
        /\ result[p] = Draw("heads crash")
        /\ \E i \in 2..Len(player[p].body) : player[p].body[i] = SnakeHead(player[p])

\* the heads met on the live target
C10_WitnessTarget ==
    \E p \in Peers(mode) :
        /\ result[p] = Draw("heads crash")
        /\ Head(target[p]) = SnakeHead(player[p])

(***************************************************************************)
(* Steps of update                                                         *)
(***************************************************************************)
\* p runs update() in this step
UpdateStep(p) ==
    /\ pc[p] = "update"
    /\ pc'[p] # "update"
    /\ target[p] # <<>>

\* the snake grew in this step
Grew(before, after) == IsSome(before) /\ SnakeSize(after) = SnakeSize(before) + 1

CrashResults == {Draw("heads crash"), Lose("player crash"), Win("opponent crash")}

C11_WitnessBoardFull ==
    \E p \in Peers(mode) :
        /\ result[p] = Lose("board full, opponent size wins")
        /\ board[p][SnakeHead(player[p])] = PLAYER_CHAR

PlayerOnLive(p) == SnakeHead(player'[p]) = Head(target[p])

OpponentOnLive(p) == IsSome(opponent[p]) /\ SnakeHead(opponent'[p]) = Head(target[p])

PlayerGrewByTail(p) ==
    /\ player'[p].body = Append(SnakeUpdate(player[p]).body, SnakeTail(player[p]))
    /\ board'[p][SnakeTail(player[p])] = PLAYER_CHAR

LengthsUnchanged(p) ==
    /\ SnakeSize(player'[p]) = SnakeSize(player[p])
    /\ IsSome(opponent[p]) => SnakeSize(opponent'[p]) = SnakeSize(opponent[p])

C13_Growth ==
    [][\A p \in Peers(mode) :
        UpdateStep(p) =>
            /\ (PlayerOnLive(p) /\ ~Grew(opponent[p], opponent'[p])) =>
                    PlayerGrewByTail(p)
            /\ (~PlayerOnLive(p) /\ ~OpponentOnLive(p)) => LengthsUnchanged(p)]_vars

(***************************************************************************)
(* C13 amended: the same, for an update that does not end in a crash (a    *)
(* heads crash on the live target, or an opponent crash, returns before    *)
(* the growth step and leaves both lengths unchanged).                     *)
(***************************************************************************)
C13_GrowthUnlessCrash ==
    [][\A p \in Peers(mode) :
        UpdateStep(p) =>
            /\ (/\ PlayerOnLive(p)
                /\ ~Grew(opponent[p], opponent'[p])
                /\ result'[p] \notin CrashResults) => PlayerGrewByTail(p)
            /\ result'[p] \in CrashResults => LengthsUnchanged(p)
            /\ (~PlayerOnLive(p) /\ ~OpponentOnLive(p)) => LengthsUnchanged(p)]_vars

\* a player of more than one segment has grown by its tail
C13_Witness ==
    \E p \in Peers(mode) :
        /\ pre[p] # None
        /\ SnakeSize(pre[p].player) > 1
        /\ SnakeSize(player[p]) = SnakeSize(pre[p].player) + 1
        /\ SnakeTail(player[p]) = SnakeTail(pre[p].player)

(***************************************************************************)
(* C14: an update in which a snake grew and that leaves no Empty or Target *)
(* cell ends the game, and an update that ends the game without a crash is *)
(* one in which a snake grew and no Empty cell is left; its result is Win  *)
(* if the player's body is longer, Lose if the opponent's is longer, Draw  *)
(* if they are equal, the lengths taken after the growth, and Win with no  *)
(* opponent.                                                               *)
(***************************************************************************)
NoCell(pixels, values) == \A pos \in Positions : pixels[pos] \notin values

TieBreak(pl, op) ==
    IF ~IsSome(op) THEN Win("board full")
    ELSE IF Len(pl.body) > Len(op.body) THEN Win("board full, player size wins")
    ELSE IF Len(pl.body) < Len(op.body) THEN Lose("board full, opponent size wins")
    ELSE Draw("board full, same size")

C14_BoardFullTieBreak ==
    [][\A p \in Peers(mode) :
        UpdateStep(p) =>
            LET grew == \/ Grew(player[p], player'[p])
                        \/ Grew(opponent[p], opponent'[p])
            IN  /\ (grew /\ NoCell(board'[p], {EMPTY_CHAR, TARGET_CHAR})) =>
                        result'[p] = TieBreak(player'[p], opponent'[p])
                /\ (result'[p] # None /\ result'[p] \notin CrashResults) =>
                        /\ grew
                        /\ NoCell(board'[p], {EMPTY_CHAR})
                        /\ result'[p] = TieBreak(player'[p], opponent'[p])]_vars

\* one peer lost and the other won on a board that growth filled
C14_Witness ==
    /\ Networked
    /\ result["client"] = Lose("board full, opponent size wins")
    /\ result["server"] = Win("board full, player size wins")

\* the full board with two snakes of the same length
C14_WitnessDraw ==
    \E p \in Peers(mode) : result[p] = Draw("board full, same size")

\* the full board of the single-player game
C14_WitnessSolo ==
    \E p \in Peers(mode) : result[p] = Win("board full")

(***************************************************************************)
(* C15: every peer starts Running; a peer that holds a terminal result has *)
(* left the tick loop, and from then on its tick counter, snakes, board,   *)
(* target queue, pending queue and result do not change, it sends nothing  *)
(* and it takes nothing from its stream.                                   *)
(***************************************************************************)
IsPrefix(a, b) == Len(a) <= Len(b) /\ SubSeq(b, 1, Len(a)) = a

C15_TerminalAbsorbing ==
    /\ \A p \in Peers(mode) : result[p] = None
    /\ [][\A p \in Peers(mode) :
            /\ result'[p] # None => pc'[p] = "done"
            /\ result[p] # None =>
                  /\ tick_id'[p] = tick_id[p]
                  /\ player'[p] = player[p]
                  /\ opponent'[p] = opponent[p]
                  /\ board'[p] = board[p]
                  /\ target'[p] = target[p]
                  /\ queue'[p] = queue[p]
                  /\ result'[p] = result[p]
                  /\ applied'[p] = applied[p]
                  /\ sent'[p] = sent[p]
                  /\ IsPrefix(wire[p], wire'[p])]_vars

\* a peer has ended its game and the other peer is still running
C15_Witness ==
    \E p \in Peers(mode) :
        /\ result[p] # None
        /\ pc[p] = "done"
        /\ Networked
        /\ pc[Other(p)] \notin {"done", "panicked"}

(***************************************************************************)
(* C16: a packet of any opcode whose payload push_data accepted (at most   *)
(* 65535 bytes, among them the payloads of 8, 1 and 2 bytes the game       *)
(* sends) is decoded from its encoding, with the same opcode and the same  *)
(* payload bytes.                                                          *)
(***************************************************************************)
C16_RoundTrip ==
    (codec.stage = "decoded" /\ codec.packet # None) =>
        /\ codec.decoded # None
        /\ codec.decoded.opcode = codec.packet.opcode
        /\ codec.decoded.data = codec.data
        /\ Len(codec.data) <= 65535

\* a payload whose length needs both bytes of the length field went through
\* encode and decode
C16_Witness ==
    /\ codec.stage = "decoded"
    /\ codec.packet # None
    /\ Len(codec.data) = 257
    /\ codec.decoded # None

(***************************************************************************)
(* C17: decode returns no packet exactly for the buffers that are shorter  *)
(* than 12 bytes, or do not start with the bytes ae fd b8 7f e7 53 ba 07,  *)
(* or whose big-endian opcode field is not 1, 2 or 3, or whose big-endian  *)
(* length field is not the number of bytes after the 12-byte header.       *)
(***************************************************************************)
Hex(high, low) == 16 * high + low

Magic == <<Hex(10, 14), Hex(15, 13), Hex(11, 8), Hex(7, 15),
           Hex(14, 7), Hex(5, 3), Hex(11, 10), Hex(0, 7)>>

BigEndian16(buffer, i) == 256 * buffer[i] + buffer[i + 1]

ShortBuffer(buffer) == Len(buffer) < 12

BadMagic(buffer) == \E i \in 1..8 : buffer[i] # Magic[i]

BadOpcode(buffer) == BigEndian16(buffer, 9) \notin {1, 2, 3}

BadLength(buffer) == BigEndian16(buffer, 11) # Len(buffer) - 12

C17_Rejection ==
    codec.stage = "decoded" =>
        (codec.decoded = None <=>
            \/ ShortBuffer(codec.buffer)
            \/ BadMagic(codec.buffer)
            \/ BadOpcode(codec.buffer)
            \/ BadLength(codec.buffer))

\* a buffer whose only defect is its length field was rejected
C17_Witness ==
    /\ codec.stage = "decoded"
    /\ codec.decoded = None
    /\ ~ShortBuffer(codec.buffer)
    /\ ~BadMagic(codec.buffer)
    /\ ~BadOpcode(codec.buffer)
    /\ BadLength(codec.buffer)

\* a buffer that no encode produced was accepted
C17_WitnessAccepted ==
    /\ codec.stage = "decoded"
    /\ codec.packet = None
    /\ codec.decoded # None
    /\ codec.buffer \notin SoundBuffers

(***************************************************************************)
(* C18: update moves a head at (r, c) to (r, (c+1) mod N) for Right,       *)
(* ((r+1) mod N, c) for Down, (r, (c-1) mod N) for Left and                *)
(* ((r-1) mod N, c) for Up, N = BOARD_SIZE, and the new head is inside the *)
(* grid.                                                                   *)
(***************************************************************************)
Wrapped(before, after) ==
    LET r == SnakeHead(before)[1]
        c == SnakeHead(before)[2]
        N == BOARD_SIZE
    IN  /\ SnakeHead(after) =
              CASE before.direction = "Right" -> <<r, (c + 1) % N>>
                [] before.direction = "Down" -> <<(r + 1) % N, c>>
                [] before.direction = "Left" -> <<r, (c - 1) % N>>
                [] before.direction = "Up" -> <<(r - 1) % N, c>>
        /\ SnakeHead(after)[1] \in 0..(N - 1)
        /\ SnakeHead(after)[2] \in 0..(N - 1)

C18_WrapMovement ==
    [][\A p \in Peers(mode) :
        UpdateStep(p) =>
            /\ Wrapped(player[p], player'[p])
            /\ IsSome(opponent[p]) => Wrapped(opponent[p], opponent'[p])]_vars

\* a head left column 0 heading Left and is in column 7 of the same row
C18_Witness ==
    \E p \in Peers(mode) :
        /\ pre[p] # None
        /\ pre[p].player.direction = "Left"
        /\ SnakeHead(pre[p].player)[2] = 0
        /\ SnakeHead(player[p]) = <<SnakeHead(pre[p].player)[1], BOARD_SIZE - 1>>

(***************************************************************************)
(* C19: a direction request d leaves a heading h alone when d is the       *)
(* opposite of h and makes the heading d otherwise, d = h included, and    *)
(* does not change the body; for the player, whose requests come from the  *)
(* input channel, and for the opponent, whose requests come in             *)
(* NewDirection packets.                                                   *)
(***************************************************************************)
Opposite(h, d) == {h, d} = {"Right", "Left"} \/ {h, d} = {"Up", "Down"}

Guarded(before, after, d) ==
    /\ after.direction = IF Opposite(before.direction, d) THEN before.direction ELSE d
    /\ after.body = before.body

C19_ReversalGuard ==
    [][\A p \in Peers(mode) :
        /\ (pc[p] = "input" /\ pc'[p] # "input" /\ ctrl_rx[p] # <<>>) =>
                Guarded(player[p], player'[p], Head(ctrl_rx[p]))
        /\ (/\ pc[p] = "drain"
            /\ applied'[p] # applied[p]
            /\ Last(applied'[p]).packet.opcode = "NewDirection") =>
                \E d \in Direction :
                    /\ Last(applied'[p]).packet = ControlPacket(d)
                    /\ Guarded(opponent[p], opponent'[p], d)]_vars

\* a player heading Left whose last request, Right, was refused, and whose
\* replica on the other peer refused it too
C19_Witness ==
    \E p \in Peers(mode) :
        /\ Networked
        /\ sent[p] # <<>>
        /\ \E i \in 1..Len(sent[p]) : sent[p][i] = ControlPacket("Right")
        /\ \E i \in 1..Len(applied[Other(p)]) :
              /\ applied[Other(p)][i].packet = ControlPacket("Right")
              /\ \A j \in (i + 1)..Len(applied[Other(p)]) :
                    applied[Other(p)][j].packet.opcode # "NewDirection"
        /\ \A i \in 1..Len(sent[p]) :
              sent[p][i].opcode = "NewDirection" => sent[p][i] = ControlPacket("Right")
        /\ player[p].direction = "Left"
        /\ opponent[Other(p)].direction = "Left"

(***************************************************************************)
(* C20: is_full is false of a board with at least one Empty or Target cell *)
(* and true of a board whose cells are all Player, Opponent or Crash.      *)
(***************************************************************************)
C20_IsFull ==
    \A p \in Peers(mode) :
        /\ (\E pos \in Positions : board[p][pos] \in {EMPTY_CHAR, TARGET_CHAR})
              => ~IsFull(board[p])
        /\ (\A pos \in Positions :
                board[p][pos] \in {PLAYER_CHAR, OPPONENT_CHAR, CRASH_CHAR})
              => IsFull(board[p])

\* a board that growth filled
C20_Witness ==
    \E p \in Peers(mode) :
        /\ result[p] # None
        /\ \A pos \in Positions : board[p][pos] \in {PLAYER_CHAR, OPPONENT_CHAR}

\* a board whose only free cell is the live target
C20_WitnessTarget ==
    \E p \in Peers(mode) :
        /\ Cardinality({pos \in Positions : board[p][pos] = TARGET_CHAR}) = 1
        /\ \A pos \in Positions : board[p][pos] # EMPTY_CHAR

(***************************************************************************)
(* C21: Snake::update is an atomic shift.  For a body of n segments, after *)
(* update every segment i with 1 <= i < n is the old segment i-1, segment  *)
(* 0 is the old head advanced one cell in the heading, and the length and  *)
(* the heading are unchanged; this is the snake that update() of the game  *)
(* goes on with, for the player and for the opponent.                      *)
(***************************************************************************)
AtomicShift(before, after) ==
    /\ Len(after.body) = Len(before.body)
    /\ \A i \in 2..Len(before.body) : after.body[i] = before.body[i - 1]
    /\ Wrapped(before, after)
    /\ after.direction = before.direction

C21_AtomicShift ==
    [][\A p \in Peers(mode) :
        UpdateStep(p) =>
            LET a == Advanced(Game(p))
            IN  /\ AtomicShift(player[p], a.player)
                /\ IsPrefix(a.player.body, player'[p].body)
                /\ player'[p].direction = player[p].direction
                /\ IsSome(opponent[p]) =>
                      /\ AtomicShift(opponent[p], a.opponent)
                      /\ IsPrefix(a.opponent.body, opponent'[p].body)
                      /\ opponent'[p].direction = opponent[p].direction]_vars

\* a snake of five segments with two bends has moved one cell
C21_Witness ==
    \E p \in Peers(mode) :
        /\ pre[p] # None
        /\ SnakeSize(pre[p].player) = 5
        /\ SnakeSize(player[p]) = 5
        /\ Cardinality(Range(pre[p].player.body)) = 5
        /\ SnakeHead(player[p]) # SnakeHead(pre[p].player)
        /\ player[p].body[3] = pre[p].player.body[2]

(***************************************************************************)
(* C22 as stated: in an update where the opponent's new head is the live   *)
(* target, the opponent's body is the body of a plain update with its own  *)
(* pre-shift tail appended, the front of the target queue is popped and    *)
(* the player does not grow; and in no update do both snakes grow.         *)
(***************************************************************************)
OpponentGrewByTail(p) ==
    opponent'[p].body = Append(SnakeUpdate(opponent[p]).body, SnakeTail(opponent[p]))

C22_ConsumedOnce ==
    [][\A p \in Peers(mode) :
        UpdateStep(p) =>
            /\ OpponentOnLive(p) =>
                  /\ OpponentGrewByTail(p)
                  /\ target'[p] = Tail(target[p])
                  /\ ~Grew(player[p], player'[p])
            /\ ~(Grew(player[p], player'[p]) /\ Grew(opponent[p], opponent'[p]))]_vars

(***************************************************************************)
(* C22 amended: in an update where the opponent's new head is the live     *)
(* target the player does not grow; if that update ends neither in a heads *)
(* crash nor in a player crash, the opponent grows by its own pre-shift    *)
(* tail, and the front of the target queue is popped unless the growth     *)
(* fills the board, in which case the update returns the result of the     *)
(* size comparison and leaves the queue as it was.  In no update do both   *)
(* snakes grow.                                                            *)
(***************************************************************************)
C22_ConsumedOnceUnlessCrash ==
    [][\A p \in Peers(mode) :
        UpdateStep(p) =>
            /\ OpponentOnLive(p) => ~Grew(player[p], player'[p])
            /\ (/\ OpponentOnLive(p)
                /\ result'[p] \notin {Draw("heads crash"), Lose("player crash")}) =>
                  /\ OpponentGrewByTail(p)
                  /\ target'[p] = IF result'[p] = None THEN Tail(target[p]) ELSE target[p]
                  /\ result'[p] # None =>
                        /\ result'[p] = TieBreak(player'[p], opponent'[p])
                        /\ NoCell(board'[p], {EMPTY_CHAR, TARGET_CHAR})
            /\ ~(Grew(player[p], player'[p]) /\ Grew(opponent[p], opponent'[p]))]_vars

\* the opponent ate the live target, grew by its tail, and the game goes on
\* with the target popped
C22_Witness ==
    \E p \in Peers(mode) :
        /\ pre[p] # None
        /\ IsSome(pre[p].opponent)
        /\ result[p] = None
        /\ SnakeHead(opponent[p]) = pre[p].live
        /\ SnakeSize(opponent[p]) = SnakeSize(pre[p].opponent) + 1
        /\ SnakeTail(opponent[p]) = SnakeTail(pre[p].opponent)
        /\ target[p] = <<>>

\* the opponent's head is on the live target and the player crashed
C22_WitnessCrash ==
    \E p \in Peers(mode) :
        /\ pre[p] # None
        /\ IsSome(pre[p].opponent)
        /\ result[p] = Lose("player crash")
        /\ SnakeHead(opponent[p]) = pre[p].live
        /\ SnakeSize(opponent[p]) = SnakeSize(pre[p].opponent)

(***************************************************************************)
(* C23: in an update of a networked peer, a NewTarget packet is sent       *)
(* exactly when the peer's own player consumed the live target and an      *)
(* Empty cell was available, and then exactly one; the coordinate sent was *)
(* Empty on the board after this tick's movement, head marking and growth, *)
(* it lies on no snake body, it differs from the consumed target, it is    *)
(* marked Target and it is the only entry of the target queue.  A peer     *)
(* whose opponent replica consumed the target sends none.                  *)
(***************************************************************************)
\* the packets p puts on the wire in this step
NewlySent(p) == SubSeq(sent'[p], Len(sent[p]) + 1, Len(sent'[p]))

\* the board of p after this tick's movement, head marking and growth
GrownBoard(p) ==
    LET a == Advanced(Game(p))
        b1 == Mark(a.board, SnakeHead(a.player), PLAYER_CHAR)
        b2 == IF IsSome(a.opponent) THEN Mark(b1, SnakeHead(a.opponent), OPPONENT_CHAR)
              ELSE b1
        b3 == IF Grew(opponent[p], opponent'[p])
              THEN Mark(b2, a.opponent_tail, OPPONENT_CHAR) ELSE b2
    IN  IF Grew(player[p], player'[p]) THEN Mark(b3, a.tail, PLAYER_CHAR) ELSE b3

Bodies(p) ==
    Range(player'[p].body)
    \cup (IF IsSome(opponent'[p]) THEN Range(opponent'[p].body) ELSE {})

SyncsOf(packets) == SelectSeq(packets, LAMBDA packet : packet.opcode = "Sync")

InOrder(p) ==
    LET s == sent[p]
        syncs == SyncsOf(s)
    IN  /\ \A i \in 1..Len(s) :
              /\ s[i].opcode = "NewDirection" =>
                    IF i < Len(s) THEN s[i + 1].opcode = "Sync"
                    ELSE pc[p] = "synchronize"
              /\ s[i].opcode = "NewTarget" =>
                    /\ i > 1
                    /\ s[i - 1].opcode = "Sync"
                    /\ i = Len(s) => pc[p] \in {"loop", "input", "synchronize"}
        /\ \A k \in 2..Len(syncs) :
              TickFromBytes(syncs[k].data, 8) = TickFromBytes(syncs[k - 1].data, 8) + 1
        /\ pc[p] \in {"barrier", "drain", "update"} =>
              /\ syncs # <<>>
              /\ Last(syncs) = SyncPacket(tick_id[p])
        /\ pc[p] \in {"input", "synchronize"} =>
              \A k \in 1..Len(syncs) : TickFromBytes(syncs[k].data, 8) < tick_id[p]

SentInStep(p) ==
    \A i \in (Len(sent[p]) + 1)..Len(sent'[p]) :
        /\ sent'[p][i].opcode = "NewDirection" =>
              /\ pc[p] = "input"
              /\ Len(sent'[p]) = Len(sent[p]) + 1
        /\ sent'[p][i].opcode = "Sync" =>
              /\ pc[p] = "synchronize"
              /\ sent'[p][i] = SyncPacket(tick_id[p])
              /\ Len(sent'[p]) = Len(sent[p]) + 1
        /\ sent'[p][i].opcode = "NewTarget" =>
              /\ pc[p] = "update"
              /\ Last(sent[p]) = SyncPacket(tick_id[p])
              /\ Len(sent'[p]) = Len(sent[p]) + 1

C24_SendOrder ==
    /\ [](Networked => \A p \in Peers(mode) : InOrder(p))
    /\ [][Networked => \A p \in Peers(mode) : SentInStep(p)]_vars

\* a peer sent a NewTarget after the Sync of one tick, and in the next tick
\* a NewDirection and then the Sync
C24_Witness ==
    \E p \in Peers(mode) :
        \E i \in 1..Len(sent[p]) :
            /\ i + 3 <= Len(sent[p])
            /\ sent[p][i].opcode = "Sync"
            /\ sent[p][i + 1].opcode = "NewTarget"
            /\ sent[p][i + 2].opcode = "NewDirection"
            /\ sent[p][i + 3] = SyncPacket(TickFromBytes(sent[p][i].data, 8) + 1)

(***************************************************************************)
(* C25: the target queue never holds more than 2 entries; an update that   *)
(* starts with 2 entries pops the front, which a snake consumes in that    *)
(* update; and between ticks, after update returned, the queue holds at    *)
(* most one entry.                                                         *)
(***************************************************************************)
BetweenTicks(p) == pc[p] \in {"loop", "done"}

CrashCells(pixels) == {pos \in Positions : pixels[pos] = CRASH_CHAR}

C26_CrashTerminalOnly ==
    /\ [](\A p \in Peers(mode) : result[p] = None => CrashCells(board[p]) = {})
    /\ [](~IsBody(CRASH_CHAR))
    /\ [][\A p \in Peers(mode) :
            CrashCells(board'[p]) # CrashCells(board[p]) =>
                /\ UpdateStep(p)
                /\ result[p] = None
                /\ result'[p] \in CrashResults
                /\ CrashCells(board'[p]) =
                      {IF result'[p] = Win("opponent crash")
                       THEN SnakeHead(opponent'[p]) ELSE SnakeHead(player'[p])}]_vars

\* an update ended in an opponent crash and left one Crash cell, under the
\* opponent's head
C26_Witness ==
    \E p \in Peers(mode) :
        /\ pre[p] # None
        /\ result[p] = Win("opponent crash")
        /\ CrashCells(board[p]) = {SnakeHead(opponent[p])}
        /\ SnakeHead(opponent[p]) # SnakeHead(player[p])

(***************************************************************************)
(* C27: the socket of a peer is blocking while the peer is in the receive  *)
(* loop of synchronize and non-blocking from the return of synchronize to  *)
(* the next call; its mode changes only where synchronize starts and ends  *)
(* that loop.  So a receive of the drain loop that finds nothing to read,  *)
(* with the connection open, does not wait: it returns no packet, and the  *)
(* peer goes on to update.                                                 *)
(***************************************************************************)
NothingToRead(p) ==
    /\ pc[p] = "drain"
    /\ queue[p] = <<>>
    /\ wire[p] = <<>>
    /\ ~Closed(Other(p))

C27_BlockingOnlyInBarrier ==
    /\ [](Networked =>
            \A p \in Peers(mode) :
                /\ pc[p] = "barrier" => blocking[p]
                /\ pc[p] \in {"drain", "update"} => ~blocking[p]
                /\ (pc[p] \in {"loop", "input", "synchronize", "done"} /\ pre[p] # None)
                      => ~blocking[p]
                /\ NothingToRead(p) =>
                      /\ RecvEmpty(blocking[p], Closed(Other(p))) = "none"
                      /\ ENABLED Drain(p))
    /\ [][Networked =>
            \A p \in Peers(mode) :
                /\ blocking'[p] # blocking[p] =>
                      \/ pc[p] = "synchronize" /\ pc'[p] = "barrier"
                      \/ pc[p] = "barrier" /\ pc'[p] = "drain"
                /\ (NothingToRead(p) /\ pc'[p] # pc[p]) => pc'[p] = "update"]_vars

\* a peer left the barrier, found nothing more to read and went on to
\* update while the other peer is still waiting in its barrier
C27_Witness ==
    \E p \in Peers(mode) :
        /\ Networked
        /\ pc[p] = "update"
        /\ ~blocking[p]
        /\ wire[p] = <<>>
        /\ pc[Other(p)] = "barrier"
        /\ blocking[Other(p)]

(***************************************************************************)
(* C28: a step changes the input channel of a peer either by appending one *)
(* direction at the back, which is a step of the input thread and leaves   *)
(* the game alone, or by removing the oldest event, which is the input     *)
(* step of the tick loop: it applies that event to the player's heading    *)
(* through the reversal guard, leaves the later events queued in their     *)
(* order, and comes once per tick, after the increment of the tick counter *)
(* and before the movement of that tick.  The input step of a tick with a  *)
(* queued event always removes one, and no other step turns the player.    *)
(***************************************************************************)
Produced(p) ==
    /\ \E d \in Direction : ctrl_rx'[p] = Append(ctrl_rx[p], d)
    /\ pc'[p] = pc[p]
    /\ player'[p] = player[p]
    /\ tick_id'[p] = tick_id[p]
    /\ board'[p] = board[p]

Consumed(p) ==
    /\ pc[p] = "input"
    /\ pc'[p] \in {"synchronize", "update"}
    /\ ctrl_rx[p] # <<>>
    /\ ctrl_rx'[p] = Tail(ctrl_rx[p])
    /\ Guarded(player[p], player'[p], Head(ctrl_rx[p]))
    /\ tick_id'[p] = tick_id[p]
    /\ board'[p] = board[p]

C28_InputChannel ==
    [][\A p \in Peers(mode) :
        /\ ctrl_rx'[p] # ctrl_rx[p] => (Produced(p) \/ Consumed(p))
        /\ (pc[p] = "input" /\ pc'[p] # "input" /\ ctrl_rx[p] # <<>>) => Consumed(p)
        /\ (pc[p] = "input" /\ pc'[p] # "input" /\ ctrl_rx[p] = <<>>) =>
              player'[p] = player[p]
        /\ (pc'[p] = "input" /\ pc[p] # "input") =>
              /\ pc[p] = "loop"
              /\ tick_id'[p] = tick_id[p] + 1
        /\ pc[p] # "input" => player'[p].direction = player[p].direction]_vars

\* the first of two queued events turned the player, whose tick is about to
\* move it, and the second is still queued
C28_Witness ==
    \E p \in Peers(mode) :
        /\ Networked
        /\ pc[p] = "update"
        /\ tick_id[p] = 1
        /\ Len(ctrl_rx[p]) = 1
        /\ keys = 2
        /\ player[p].direction # GameNew(p, 0, 0, 0).player.direction
        /\ Head(ctrl_rx[p]) # player[p].direction

(***************************************************************************)
(* C29: the packet the drain loop hands to process next, the front of the  *)
(* pending queue or else the next packet of the stream, is never a Sync,   *)
(* so no peer panics in process.                                           *)
(***************************************************************************)
NextDrained(p) ==
    IF queue[p] # <<>> THEN Head(queue[p])
    ELSE IF wire[p] # <<>> THEN Head(wire[p])
    ELSE None

C29_ProcessNeverSync ==
    Networked =>
        \A p \in Peers(mode) :
            pc[p] = "drain" =>
                \/ NextDrained(p) = None
                \/ NextDrained(p).opcode \in {"NewDirection", "NewTarget"}

(***************************************************************************)
(* C30: between two peers that keep to the protocol, the first Sync packet *)
(* on the stream of a peer that is in the barrier of tick T is Sync(T);    *)
(* a barrier step that takes a Sync from the stream takes Sync(T) and ends *)
(* the barrier, so no Sync is discarded.                                   *)
(***************************************************************************)
FirstSync(packets) ==
    IF SyncsOf(packets) = <<>> THEN None ELSE Head(SyncsOf(packets))

C30_NoMismatchedSync ==
    /\ [](Networked =>
            \A p \in Peers(mode) :
                pc[p] = "barrier" =>
                    FirstSync(wire[p]) \in {None, SyncPacket(tick_id[p])})
    /\ [][Networked =>
            \A p \in Peers(mode) :
                (/\ pc[p] = "barrier"
                 /\ wire[p] # <<>>
                 /\ wire'[p] = Tail(wire[p])
                 /\ Head(wire[p]).opcode = "Sync") =>
                    /\ Head(wire[p]) = SyncPacket(tick_id[p])
                    /\ pc'[p] = "drain"
                    /\ queue'[p] = queue[p]]_vars

\* a peer in the barrier of its second tick has queued an event and has
\* the Sync of that tick next on its stream
C30_Witness ==
    \E p \in Peers(mode) :
        /\ Networked
        /\ pc[p] = "barrier"
        /\ tick_id[p] = 2
        /\ queue[p] # <<>>
        /\ wire[p] # <<>>
        /\ Head(wire[p]) = SyncPacket(2)

(***************************************************************************)
(* C31: in a networked game the tick counters of the two peers differ by   *)
(* at most 1, and a peer runs update for tick T only after the other peer  *)
(* has sent Sync(T), when the other peer's counter is T or more.           *)
(***************************************************************************)
Skew(p) == tick_id[p] - tick_id[Other(p)]

C31_BoundedSkew ==
    /\ [](Networked => \A p \in Peers(mode) : Skew(p) \in {-1, 0, 1})
    /\ [][Networked =>
            \A p \in Peers(mode) :
                UpdateStep(p) =>
                    /\ SyncIndex(Other(p), tick_id[p]) > 0
                    /\ tick_id[Other(p)] >= tick_id[p]]_vars

\* a peer has run update for a tick and waits in the barrier of the next
\* one, a tick ahead of the other peer, which still drains
C31_Witness ==
    \E p \in Peers(mode) :
        /\ Networked
        /\ pc[p] = "barrier"
        /\ pre[p] # None
        /\ pre[p].tick_id = tick_id[p] - 1
        /\ Skew(p) = 1
        /\ pc[Other(p)] = "drain"
        /\ SyncIndex(Other(p), tick_id[Other(p)]) > 0

(***************************************************************************)
(* The networked game under fair scheduling: the process of each peer      *)
(* keeps running, so a step of its tick loop that stays possible is taken. *)
(* The stream is reliable and in order: what is written is there to read.  *)
(* Nothing is assumed of the keyboard, which has one more line to give.    *)
(***************************************************************************)
PeerStep(p) ==
    \/ LoopTick(p)
    \/ Input(p)
    \/ SyncSend(p)
    \/ BarrierRecv(p)
    \/ Drain(p)
    \/ DoUpdate(p)

InitFair ==
    Start("Multiplayer", [p \in {"client", "server"} |-> GameNew(p, 0, 0, 0)],
          0, MaxTicks, MaxKeys - 1)

SpecFair ==
    /\ InitFair
    /\ [][Next]_vars
    /\ \A p \in {"client", "server"} : WF_vars(PeerStep(p))

(***************************************************************************)
(* C32: if both peers are in synchronize for tick T, each of them          *)
(* eventually leaves the barrier of tick T, and each of them eventually    *)
(* runs its update for tick T.                                             *)
(***************************************************************************)
InSynchronize(p, t) == pc[p] \in {"synchronize", "barrier"} /\ tick_id[p] = t

BothInSynchronize(t) == \A p \in Peers(mode) : InSynchronize(p, t)

LeftBarrier(p, t) == pc[p] = "drain" /\ tick_id[p] = t

RanUpdate(p, t) == pre[p] # None /\ pre[p].tick_id = t

C32_BarrierProgress ==
    \A p \in {"client", "server"} : \A t \in 1..MaxTicks :
        /\ BothInSynchronize(t) ~> LeftBarrier(p, t)
        /\ BothInSynchronize(t) ~> RanUpdate(p, t)

\* the first half alone: both peers leave the barrier
C32_BarrierLeft ==
    \A p \in {"client", "server"} : \A t \in 1..MaxTicks :
        BothInSynchronize(t) ~> LeftBarrier(p, t)

\* both peers wait in the barrier of the same tick
C32_Witness ==
    /\ Networked
    /\ \A p \in Peers(mode) : pc[p] = "barrier" /\ tick_id[p] = 2

(***************************************************************************)
(* C33: at the end of every tick that leaves the game running, a cell is   *)
(* marked Player exactly when it belongs to the player's body and Opponent *)
(* exactly when it belongs to the opponent's body, the two bodies are      *)
(* disjoint and no body holds a coordinate twice.                          *)
(***************************************************************************)
Cells(s) == IF IsSome(s) THEN Range(s.body) ELSE {}

NoRepeat(s) == IsSome(s) => Cardinality(Range(s.body)) = Len(s.body)

Consistent(p) ==
    /\ \A pos \in Positions :
          /\ board[p][pos] = PLAYER_CHAR <=> pos \in Cells(player[p])
          /\ board[p][pos] = OPPONENT_CHAR <=> pos \in Cells(opponent[p])
    /\ Cells(player[p]) \cap Cells(opponent[p]) = {}
    /\ NoRepeat(player[p])
    /\ NoRepeat(opponent[p])

InitTurn ==
    Start("Multiplayer", [p \in {"client", "server"} |-> GameNew(p, 0, 0, 0)],
          0, MaxTicks + 1, 0)

SpecTurn == InitTurn /\ [][Next]_vars

(***************************************************************************)
(* C34: for the player and for the replica of the opponent on every peer,  *)
(* the heading a movement step uses is never the exact opposite of the     *)
(* heading the previous movement step of that snake used.                  *)
(***************************************************************************)
\* the snake moves in this step with the exact opposite of the heading of
\* its previous movement
Reversed(before, now) ==
    /\ IsSome(before)
    /\ IsSome(now)
    /\ Opposite(before.direction, now.direction)

C34_NoReversal ==
    [][\A p \in Peers(mode) :
          (UpdateStep(p) /\ pre[p] # None) =>
              /\ ~Reversed(pre[p].player, player[p])
              /\ ~Reversed(pre[p].opponent, opponent[p])]_vars

(***************************************************************************)
(* The game in progress of DeepScenarios followed for one tick more, to    *)
(* the tick after the one in which the client places its second target.    *)
(***************************************************************************)
InitLong ==
    \E sc \in DeepScenarios :
        Start("Multiplayer", [p \in {"client", "server"} |-> GameMid(p, sc)],
              LateTick, LateTick + DeepTicks + 1, MaxKeys - 1)

SpecLong == InitLong /\ [][Next]_vars

(***************************************************************************)
(* C35: whenever update marks the front of the target queue as Target,     *)
(* after the player advanced and before the opponent advances, that cell   *)
(* is no segment of the player's body but possibly its head, and no        *)
(* segment of the opponent's body.                                         *)
(***************************************************************************)
\* the cell update() marks as Target in a game g lies under a snake
RemarkedUnderSnake(g) ==
    LET a == Advanced(g)
    IN  \/ a.live \in Range(Tail(a.player.body))
        \/ a.live \in Cells(g.opponent)

SideScenarios ==
    { [player |-> [body |-> <<<<1, 3>>>>, direction |-> "Left"],
       opponent |-> [body |-> <<<<5, 5>>, <<5, 4>>>>, direction |-> "Right"],
       live |-> <<0, 3>>] }

InitSide ==
    \E sc \in SideScenarios :
        Start("Multiplayer", [p \in {"client", "server"} |-> GameMid(p, sc)],
              LateTick, LateTick + MaxTicks, MaxKeys - 1)

SpecSide == InitSide /\ [][Next]_vars

(***************************************************************************)
(* C36: every time update reads the front of the target queue the queue is *)
(* not empty, in the single-player game and in the networked game.         *)
(***************************************************************************)
C36_TargetAvailable ==
    \A p \in Peers(mode) : pc[p] = "update" => target[p] # <<>>

(***************************************************************************)
(* C37: in the single-player game no packet is ever sent or received and   *)
(* the barrier is never entered; update never returns Draw, returns Lose   *)
(* only when the player's head lands on a Player cell, and returns Win     *)
(* only in a tick in which the player grew and no Empty cell remained, and *)
(* then the player's body covers every cell of the board.                  *)
(***************************************************************************)
Solo == mode = "Singleplayer"

\* the cell the head of the player lands on, as update() finds it
LandsOn(g) == Value(Advanced(g).board, SnakeHead(Advanced(g).player))

NoNetwork(p) ==
    /\ opponent[p] = None
    /\ ~socket[p]
    /\ sent[p] = <<>>
    /\ wire[p] = <<>>
    /\ queue[p] = <<>>
    /\ applied[p] = <<>>
    /\ pc[p] \in {"loop", "input", "update", "done"}

C37_SinglePlayerOutcomes ==
    /\ [](Solo => \A p \in Peers(mode) : NoNetwork(p))
    /\ [][Solo =>
            \A p \in Peers(mode) :
                UpdateStep(p) =>
                    /\ result'[p] = None \/ result'[p].kind \in {"Win", "Lose"}
                    /\ (result'[p] # None /\ result'[p].kind = "Lose") =>
                          LandsOn(Game(p)) = PLAYER_CHAR
                    /\ (result'[p] # None /\ result'[p].kind = "Win") =>
                          /\ Grew(player[p], player'[p])
                          /\ \A pos \in Positions : board'[p][pos] # EMPTY_CHAR
                          /\ Range(player'[p].body) = Positions]_vars

\* the single-player game won: the snake grew onto the last cell
C37_Witness ==
    /\ Solo
    /\ result["single"] = Win("board full")
    /\ pc["single"] = "done"
    /\ SnakeSize(player["single"]) = BOARD_SIZE * BOARD_SIZE

\* the single-player game lost: the head ran into the body
C37_WitnessLose ==
    /\ Solo
    /\ result["single"] = Lose("player crash")
    /\ pc["single"] = "done"

====
